---- MODULE Spec2Model ----
(***************************************************************************)
(* Model of crawl_data.py: a sequential batch run that fetches the genre   *)
(* list, pages through the listing endpoints, deduplicates the records by  *)
(* id, enriches each record with its credits and writes the rows to a CSV  *)
(* file.  Every HTTP request goes through safe_get (3 attempts).           *)
(*                                                                         *)
(* The upstream API is the environment: each attempt of safe_get ends in   *)
(* an exception, a non-200 status, an undecodable body, or a 200 response  *)
(* whose body decodes to a JSON object.  JSON objects are TLA+ records     *)
(* (a key of the object is an element of DOMAIN); the Python None is the   *)
(* value None below, which is no JSON object.                              *)
(***************************************************************************)
EXTENDS Integers, Sequences, FiniteSets, TLC

VARIABLES
    API_KEY,     \* module global read from the environment (line 9)
    pc,          \* position of the run in main and its callees
    session,     \* TRUE once create_session has run (line 98)
    attempt,     \* iterations of safe_get's loop done in the current call
    failed,      \* history: how many of them failed
    data,        \* the caller's data: the value safe_get returned to it (None
                 \* before the first return and once the caller has returned)
    genre_map,   \* main's genre_map (line 101)
    ep,          \* index into ENDPOINTS of main's for loop (line 107)
    page,        \* page of get_movies_from_endpoint's for loop (line 71)
    movies,      \* all_movies of get_movies_from_endpoint (line 70)
    all_movies,  \* main's all_movies (line 104)
    seen,        \* main's seen (line 105)
    i,           \* index of main's enumerate loop (line 118), 1-based
    rows,        \* main's rows (line 117)
    file,        \* SAVE_FILE: NoFile or the file of the rows written
    error,       \* the exception that ended the run, "none" if none
    httpUsed,    \* history: some session.get call has been issued
    lastReq,     \* history: <<endpoint index, page>> of the last listing request
    stoppedAt,   \* history: the page of the current endpoint that came back
                 \* absent or without a result list, 0 if none did
    fetched,     \* history: every listing record returned, in arrival order
    epFetched,   \* history: the records returned for the current endpoint
    genreCalls,  \* history: number of safe_get calls made by get_genres
    creditsLog,  \* history: movie ids passed to get_movie_credits, in order
    cPayload,    \* get_movie_credits alone: the credits payload (CreditsSpec)
    cResult      \* get_movie_credits alone: its return value (CreditsSpec)

vars == <<API_KEY, pc, session, attempt, failed, data, genre_map, ep, page, movies,
          all_movies, seen, i, rows, file, error, httpUsed, lastReq,
          stoppedAt, fetched, epFetched, genreCalls, creditsLog, cPayload, cResult>>

(***************************************************************************)
(* Bounds of the model.                                                    *)
(***************************************************************************)
\* PAGES_PER_ENDPOINT is 30 in the source (line 15); the model runs the same
\* loop with a smaller page count.
PAGES_PER_ENDPOINT == 2
MaxId == 2          \* movie ids are 1..MaxId
MaxRecords == 2     \* listing records the upstream returns in one run
MaxCast == 7        \* longest cast array (CreditsSpec)
MaxCrew == 2        \* longest crew array (CreditsSpec)

(***************************************************************************)
(* Program constants.                                                      *)
(***************************************************************************)
MaxAttempts == 3    \* range(3) in safe_get
TopCast == 5        \* [:5] in get_movie_credits
PLACEHOLDER == "YOUR_API_KEY_HERE"
ENDPOINTS == <<"/movie/popular", "/movie/top_rated", "/movie/upcoming",
               "/movie/now_playing">>

\* Python values
None == [isNone |-> TRUE]
EmptyObj == [k \in {} |-> TRUE]          \* the JSON object {}
\* SAVE_FILE: absent, or the rows it holds
NoFile == [exists |-> FALSE]
FileOf(rs) == [exists |-> TRUE, rows |-> rs]
OldFile == FileOf(<<[id |-> 0, genres |-> "", top_cast |-> "", director |-> ""]>>)
\* Python truthiness of a safe_get result: None and {} are falsy
Truthy(d) == d # None /\ DOMAIN d # {}
HasKey(d, k) == k \in DOMAIN d

\* Sequences over S of length 0..n
SeqUpTo(S, n) == UNION {[1..k -> S] : k \in 0..n}

\* ", ".join(list of str)
RECURSIVE Join(_)
Join(s) == IF s = <<>> THEN ""
           ELSE IF Len(s) = 1 THEN s[1]
           ELSE s[1] \o ", " \o Join(Tail(s))


(***************************************************************************)
(* The environment: the credential and the upstream's responses.           *)
(***************************************************************************)
\* os.getenv("API_KEY"): unset (None) or a string
KeyUnset == [set |-> FALSE]
KeyOf(s) == [set |-> TRUE, value |-> s]
Credentials == {KeyUnset, KeyOf(""), KeyOf(PLACEHOLDER), KeyOf("k3y")}

MovieIds == 1..MaxId
\* listing records: an id, and genre_ids when the upstream sends the key
Records == [id : MovieIds]
           \cup [id : MovieIds, genre_ids : {<<28, 12>>}]

\* bodies of /genre/movie/list
GenrePayloads ==
    { EmptyObj,
      [status_message |-> "Invalid API key"],
      [genres |-> <<>>],
      [genres |-> <<[id |-> 28, name |-> "Action"]>>],
      [genres |-> <<[id |-> 28, name |-> "Action"],
                    [id |-> 12, name |-> "Adventure"]>>] }

\* bodies of a listing endpoint
ListingPayloads ==
    { EmptyObj, [status_message |-> "Invalid page"] }
    \cup { [results |-> s] :
             s \in { t \in SeqUpTo(Records, MaxRecords) :
                       Len(fetched) + Len(t) <= MaxRecords } }

\* bodies of /movie/{id}/credits used in the whole run
RunCreditsPayloads ==
    { EmptyObj,
      [cast |-> <<[name |-> "A"], [name |-> "B"]>>,
       crew |-> <<[name |-> "W", job |-> "Writer"],
                  [name |-> "D", job |-> "Director"]>>] }

\* bodies of /movie/{id}/credits for get_movie_credits alone
CastEntries == {[name |-> "A"], [name |-> "B"]}
CrewEntries == {[name |-> "D", job |-> "Director"],
                [name |-> "E", job |-> "Director"],
                [name |-> "W", job |-> "Writer"],
                [name |-> "N"]}
CreditsPayloads ==
    { EmptyObj }
    \cup { [id |-> 1] }
    \cup { [cast |-> c] : c \in SeqUpTo(CastEntries, MaxCast) }
    \cup { [crew |-> w] : w \in SeqUpTo(CrewEntries, MaxCrew) }
    \cup { [cast |-> c, crew |-> w] :
             c \in { [k \in 1..n |-> IF k = j THEN [name |-> "B"] ELSE [name |-> "A"]] :
                       n \in 0..MaxCast, j \in 0..MaxCast },
             w \in SeqUpTo(CrewEntries, MaxCrew) }

(***************************************************************************)
(* The pure parts of the program.                                          *)
(***************************************************************************)
\* a credential check that forgets the placeholder
CredentialRejectedNoPlaceholder(k) == IF ~k.set THEN TRUE ELSE k.value = ""

\* line 94: not API_KEY or API_KEY == "YOUR_API_KEY_HERE"
CredentialRejected(k) ==
    IF ~k.set THEN TRUE ELSE k.value = "" \/ k.value = PLACEHOLDER

\* get_genres, lines 62-66, on the value safe_get returned
GenreMapOf(d) ==
    IF Truthy(d) /\ HasKey(d, "genres")
    THEN LET gs == d.genres
             last(g) == CHOOSE k \in 1..Len(gs) :
                           /\ gs[k].id = g
                           /\ \A j \in (k+1)..Len(gs) : gs[j].id # g
         IN [g \in {gs[k].id : k \in 1..Len(gs)} |-> gs[last(g)].name]
    ELSE EmptyObj

\* a merge without the test of line 111
MergeAll(ms, am, sn) ==
    [all_movies |-> am \o ms, seen |-> sn \cup {ms[k].id : k \in 1..Len(ms)}]

\* a merge in which a later occurrence overwrites the record kept for its id
RECURSIVE MergeLastWins(_, _, _)
MergeLastWins(ms, am, sn) ==
    IF ms = <<>> THEN [all_movies |-> am, seen |-> sn]
    ELSE IF Head(ms).id \notin sn
         THEN MergeLastWins(Tail(ms), Append(am, Head(ms)), sn \cup {Head(ms).id})
         ELSE MergeLastWins(Tail(ms),
                            [k \in 1..Len(am) |->
                               IF am[k].id = Head(ms).id THEN Head(ms) ELSE am[k]],
                            sn)

\* lines 110-113: merge one endpoint's movies into (all_movies, seen)
RECURSIVE Merge(_, _, _)
Merge(ms, am, sn) ==
    IF ms = <<>> THEN [all_movies |-> am, seen |-> sn]
    ELSE IF Head(ms).id \notin sn
         THEN Merge(Tail(ms), Append(am, Head(ms)), sn \cup {Head(ms).id})
         ELSE Merge(Tail(ms), am, sn)

\* dict.get(key, default)
Get(d, k, default) == IF HasKey(d, k) THEN d[k] ELSE default

\* line 124: [genre_map.get(g, g) for g in m.get("genre_ids", [])]; an entry
\* is a str (a name of the map) or the int g itself
ResolveGenre(gm, g) == IF g \in DOMAIN gm THEN [str |-> gm[g]] ELSE [int |-> g]
GenresOf(gm, m) ==
    LET ids == Get(m, "genre_ids", <<>>)
    IN [k \in 1..Len(ids) |-> ResolveGenre(gm, ids[k])]

\* line 135: ", ".join(genres) raises TypeError on an item that is no str
JoinRaises(gs) == \E k \in 1..Len(gs) : ~HasKey(gs[k], "str")
JoinGenres(gs) == Join([k \in 1..Len(gs) |-> gs[k].str])

\* a slice that does not cut
FirstNAll(s, n) == s

\* get_movie_credits, lines 85-91, on the value safe_get returned
FirstN(s, n) == SubSeq(s, 1, IF Len(s) < n THEN Len(s) ELSE n)
Names(s) == [k \in 1..Len(s) |-> s[k].name]
IsDirector(c) == IF HasKey(c, "job") THEN c.job = "Director" ELSE FALSE
CreditsOf(d) ==
    IF ~Truthy(d) THEN <<"", "">>
    ELSE LET cast_names == Names(FirstN(Get(d, "cast", <<>>), TopCast))
             directors == Names(SelectSeq(Get(d, "crew", <<>>), IsDirector))
         IN <<Join(cast_names),
              IF directors # <<>> THEN directors[1] ELSE "">>

\* lines 129-139: the row of movie m
RowOf(gm, m, credits) ==
    [id |-> m.id, genres |-> JoinGenres(GenresOf(gm, m)),
     top_cast |-> credits[1], director |-> credits[2]]


(***************************************************************************)
(* The run.                                                                *)
(***************************************************************************)
SafeGetPcs == {"safe_get_genres", "safe_get_page", "safe_get_credits"}

\* where safe_get returns to
Caller(p) == CASE p = "safe_get_genres" -> "get_genres"
               [] p = "safe_get_page" -> "get_movies_from_endpoint"
               [] p = "safe_get_credits" -> "get_movie_credits"

\* the bodies the upstream can send to the request in flight
Payloads(p) == CASE p = "safe_get_genres" -> GenrePayloads
                 [] p = "safe_get_page" -> ListingPayloads
                 [] p = "safe_get_credits" -> RunCreditsPayloads

\* the records a listing response brings, and whether it brings no result list
Arrived(d) == IF HasKey(d, "results") THEN d.results ELSE <<>>
NoResultList(d) == d = None \/ ~HasKey(d, "results")

\* variables that no step of main changes
fixed == <<API_KEY, cPayload, cResult>>

\* SAVE_FILE before the run.  to_csv overwrites the file whatever it holds, so
\* the file of an earlier run is told from no file only where the run has to
\* leave it alone
FilesBefore(k) == IF k \in {KeyUnset, KeyOf(""), KeyOf(PLACEHOLDER)}
                  THEN {NoFile, OldFile}
                  ELSE {NoFile}

Init ==
    /\ API_KEY \in Credentials
    /\ pc = "main"
    /\ session = FALSE
    /\ attempt = 0
    /\ failed = 0
    /\ data = None
    /\ genre_map = EmptyObj
    /\ ep = 1
    /\ page = 1
    /\ movies = <<>>
    /\ all_movies = <<>>
    /\ seen = {}
    /\ i = 1
    /\ rows = <<>>
    /\ file \in FilesBefore(API_KEY)
    /\ error = "none"
    /\ httpUsed = FALSE
    /\ lastReq = <<0, 0>>
    /\ stoppedAt = 0
    /\ fetched = <<>>
    /\ epFetched = <<>>
    /\ genreCalls = 0
    /\ creditsLog = <<>>
    /\ cPayload = EmptyObj
    /\ cResult = <<"", "">>

\* lines 94-96: the credential is rejected, main returns
main_reject ==
    /\ pc = "main"
    /\ CredentialRejected(API_KEY)
    /\ pc' = "returned"
    /\ UNCHANGED <<session, attempt, failed, data, genre_map, ep, page, movies,
                   all_movies, seen, i, rows, file, error, httpUsed, lastReq,
                   stoppedAt, fetched, epFetched, genreCalls, creditsLog, fixed>>

\* lines 98-101 and 60-61: create the session, get_genres calls safe_get
main_start ==
    /\ pc = "main"
    /\ ~CredentialRejected(API_KEY)
    /\ session' = TRUE
    /\ genreCalls' = genreCalls + 1
    /\ attempt' = 0
    /\ failed' = 0
    /\ pc' = "safe_get_genres"
    /\ UNCHANGED <<data, genre_map, ep, page, movies, all_movies, seen, i, rows,
                   file, error, httpUsed, lastReq, stoppedAt, fetched, epFetched,
                   creditsLog, fixed>>

\* safe_get returns d to its caller; a listing response is recorded
Return(d) ==
    /\ data' = d
    /\ pc' = Caller(pc)
    /\ IF pc = "safe_get_page"
       THEN /\ fetched' = fetched \o Arrived(d)
            /\ epFetched' = epFetched \o Arrived(d)
            /\ stoppedAt' = IF NoResultList(d) THEN page ELSE stoppedAt
       ELSE UNCHANGED <<fetched, epFetched, stoppedAt>>

\* lines 48-52: one iteration of safe_get's loop in which session.get returns
\* status 200 and r.json() decodes the body: safe_get returns the payload
safe_get_ok ==
    /\ pc \in SafeGetPcs
    /\ attempt < MaxAttempts
    /\ attempt' = attempt + 1
    /\ httpUsed' = TRUE
    /\ \E body \in Payloads(pc) : Return(body)
    /\ UNCHANGED failed
    /\ UNCHANGED <<session, genre_map, ep, page, movies, all_movies, seen, i,
                   rows, file, error, lastReq, genreCalls, creditsLog, fixed>>

\* a loop of two iterations
AfterFailureTwoTries(n) == IF n = MaxAttempts - 1 THEN "return None" ELSE "retry"

\* what safe_get does after its n-th failed iteration: after the last one the
\* loop is over and line 56 returns None
AfterFailure(n) == IF n = MaxAttempts THEN "return None" ELSE "retry"

\* lines 48-56: one iteration of safe_get's loop in which session.get raises,
\* the status is not 200, or r.json() raises; after the third, return None
safe_get_fail ==
    /\ pc \in SafeGetPcs
    /\ attempt < MaxAttempts
    /\ attempt' = attempt + 1
    /\ failed' = failed + 1
    /\ httpUsed' = TRUE
    /\ IF AfterFailure(attempt + 1) = "return None"
       THEN Return(None)
       ELSE UNCHANGED <<data, pc, fetched, epFetched, stoppedAt>>
    /\ UNCHANGED <<session, genre_map, ep, page, movies, all_movies, seen, i,
                   rows, file, error, lastReq, genreCalls, creditsLog, fixed>>

\* a request that never moves to the next page of an endpoint
RequestSamePage(e, p) ==
    /\ ep' = e
    /\ page' = IF e = ep THEN page ELSE p
    /\ lastReq' = <<e, IF e = ep THEN page ELSE p>>
    /\ attempt' = 0
    /\ failed' = 0
    /\ pc' = "safe_get_page"

\* lines 71-73: get_movies_from_endpoint requests page p of endpoint e
Request(e, p) ==
    /\ ep' = e
    /\ page' = p
    /\ lastReq' = <<e, p>>
    /\ attempt' = 0
    /\ failed' = 0
    /\ pc' = "safe_get_page"

\* lines 62-66, 101-109 and 70-73: get_genres builds the map; main starts its
\* loop over ENDPOINTS and the first endpoint's page 1 is requested
get_genres_return ==
    /\ pc = "get_genres"
    /\ genre_map' = GenreMapOf(data)
    /\ movies' = <<>>
    /\ epFetched' = <<>>
    /\ data' = None
    /\ Request(1, 1)
    /\ UNCHANGED <<session, all_movies, seen, i, rows, file, error,
                   httpUsed, stoppedAt, fetched, genreCalls, creditsLog, fixed>>

\* a test that also stops on an empty result list
PageStopsOnEmpty(d) ==
    IF ~Truthy(d) THEN TRUE
    ELSE IF ~HasKey(d, "results") THEN TRUE
    ELSE d.results = <<>>

\* line 74: the page ends the pagination of the endpoint
PageStops(d) == ~Truthy(d) \/ ~HasKey(d, "results")

\* lines 76-78 and 71-73: the page's results are added; the next page is
\* requested, or the loop over the pages is over
page_extend ==
    /\ pc = "get_movies_from_endpoint"
    /\ ~PageStops(data)
    /\ movies' = movies \o data.results
    /\ IF page < PAGES_PER_ENDPOINT
       THEN /\ Request(ep, page + 1)
            /\ UNCHANGED data
       ELSE /\ pc' = "merge"
            /\ data' = None
            /\ attempt' = 0
            /\ failed' = 0
            /\ UNCHANGED <<ep, page, lastReq>>
    /\ UNCHANGED <<session, genre_map, all_movies, seen, i, rows, file,
                   error, httpUsed, stoppedAt, fetched, epFetched, genreCalls,
                   creditsLog, fixed>>

\* a continue in the place of the break of line 75
page_break_continues ==
    /\ pc = "get_movies_from_endpoint"
    /\ ~Truthy(data) \/ ~HasKey(data, "results")
    /\ IF page < PAGES_PER_ENDPOINT
       THEN /\ page' = page + 1
            /\ lastReq' = <<ep, page + 1>>
            /\ pc' = "safe_get_page"
       ELSE /\ pc' = "merge"
            /\ UNCHANGED <<page, lastReq>>
    /\ data' = None
    /\ attempt' = 0
    /\ failed' = 0
    /\ UNCHANGED <<session, genre_map, ep, movies, all_movies, seen,
                   i, rows, file, error, httpUsed, stoppedAt, fetched,
                   epFetched, genreCalls, creditsLog, fixed>>

\* lines 74-75 and 79: break, the movies collected so far are returned
page_break ==
    /\ pc = "get_movies_from_endpoint"
    /\ PageStops(data)
    /\ pc' = "merge"
    /\ data' = None
    /\ attempt' = 0
    /\ failed' = 0
    /\ UNCHANGED <<session, genre_map, ep, page, movies, all_movies, seen,
                   i, rows, file, error, httpUsed, lastReq, stoppedAt, fetched,
                   epFetched, genreCalls, creditsLog, fixed>>

\* lines 110-113, then 107-109 for the next endpoint or 115-118 after the last
merge ==
    /\ pc = "merge"
    /\ LET m == Merge(movies, all_movies, seen)
       IN /\ all_movies' = m.all_movies
          /\ seen' = m.seen
    /\ stoppedAt' = 0
    /\ IF ep < Len(ENDPOINTS)
       THEN /\ movies' = <<>>
            /\ epFetched' = <<>>
            /\ Request(ep + 1, 1)
            /\ UNCHANGED i
       ELSE /\ i' = 1
            /\ pc' = "rows"
            /\ UNCHANGED <<ep, page, lastReq, attempt, failed, movies,
                           epFetched>>
    /\ UNCHANGED <<session, data, genre_map, rows, file, error, httpUsed,
                   fetched, genreCalls, creditsLog, fixed>>

\* lines 118-127 and 83-84: the next movie; get_movie_credits calls safe_get
row_begin ==
    /\ pc = "rows"
    /\ i <= Len(all_movies)
    /\ creditsLog' = Append(creditsLog, all_movies[i].id)
    /\ attempt' = 0
    /\ failed' = 0
    /\ pc' = "safe_get_credits"
    /\ UNCHANGED <<session, data, genre_map, ep, page, movies, all_movies, seen,
                   i, rows, file, error, httpUsed, lastReq, stoppedAt, fetched,
                   epFetched, genreCalls, fixed>>

\* lines 85-91 and 129-142: the credits are extracted and the row is appended
row_append ==
    /\ pc = "get_movie_credits"
    /\ ~JoinRaises(GenresOf(genre_map, all_movies[i]))
    /\ rows' = Append(rows, RowOf(genre_map, all_movies[i], CreditsOf(data)))
    /\ i' = i + 1
    /\ data' = None
    /\ attempt' = 0
    /\ failed' = 0
    /\ pc' = "rows"
    /\ UNCHANGED <<session, genre_map, ep, page, movies, all_movies, seen,
                   file, error, httpUsed, lastReq, stoppedAt, fetched, epFetched,
                   genreCalls, creditsLog, fixed>>

\* lines 85-91 and 135: ", ".join(genres) raises TypeError, which ends main
row_raise ==
    /\ pc = "get_movie_credits"
    /\ JoinRaises(GenresOf(genre_map, all_movies[i]))
    /\ error' = "TypeError"
    /\ pc' = "raised"
    /\ UNCHANGED <<session, attempt, failed, data, genre_map, ep, page, movies, all_movies, seen,
                   i, rows, file, httpUsed, lastReq, stoppedAt, fetched,
                   epFetched, genreCalls, creditsLog, fixed>>

\* lines 144-146: the rows are written to SAVE_FILE
to_csv ==
    /\ pc = "rows"
    /\ i > Len(all_movies)
    /\ file' = FileOf(rows)
    /\ pc' = "done"
    /\ UNCHANGED <<session, attempt, failed, data, genre_map, ep, page, movies,
                   all_movies, seen, i, rows, error, httpUsed, lastReq, stoppedAt,
                   fetched, epFetched, genreCalls, creditsLog, fixed>>

\* line 145: the file cannot be written, to_csv raises
to_csv_raise ==
    /\ pc = "rows"
    /\ i > Len(all_movies)
    /\ error' = "OSError"
    /\ pc' = "raised"
    /\ UNCHANGED <<session, attempt, failed, data, genre_map, ep, page, movies,
                   all_movies, seen, i, rows, file, httpUsed, lastReq, stoppedAt,
                   fetched, epFetched, genreCalls, creditsLog, fixed>>

Next ==
    \/ main_reject
    \/ main_start
    \/ safe_get_ok
    \/ safe_get_fail
    \/ get_genres_return
    \/ page_extend
    \/ page_break
    \/ merge
    \/ row_begin
    \/ row_append
    \/ row_raise
    \/ to_csv
    \/ to_csv_raise

Spec == Init /\ [][Next]_vars

\* the run is one sequential thread: a step that can be taken is taken
FairSpec == Spec /\ WF_vars(Next)

Terminated == pc \in {"returned", "done", "raised"}

(***************************************************************************)
(* get_movie_credits alone, on every credits payload of the bounds, and on *)
(* the None of a failed fetch.                                             *)
(***************************************************************************)
CreditsInit ==
    /\ API_KEY = KeyOf("k3y")
    /\ pc = "credits_call"
    /\ session = TRUE
    /\ attempt = 0
    /\ failed = 0
    /\ data = None
    /\ genre_map = EmptyObj
    /\ ep = 1
    /\ page = 1
    /\ movies = <<>>
    /\ all_movies = <<>>
    /\ seen = {}
    /\ i = 1
    /\ rows = <<>>
    /\ file = NoFile
    /\ error = "none"
    /\ httpUsed = FALSE
    /\ lastReq = <<0, 0>>
    /\ stoppedAt = 0
    /\ fetched = <<>>
    /\ epFetched = <<>>
    /\ genreCalls = 0
    /\ creditsLog = <<>>
    /\ cPayload \in CreditsPayloads \cup {None}
    /\ cResult = <<"", "">>

\* lines 84-91: safe_get has returned cPayload; the pair is computed
credits_extract ==
    /\ pc = "credits_call"
    /\ data' = cPayload
    /\ cResult' = CreditsOf(cPayload)
    /\ pc' = "credits_result"
    /\ UNCHANGED <<API_KEY, session, attempt, failed, genre_map, ep, page,
                   movies, all_movies, seen, i, rows, file, error, httpUsed,
                   lastReq, stoppedAt, fetched, epFetched, genreCalls,
                   creditsLog, cPayload>>

CreditsNext == credits_extract

CreditsSpec == CreditsInit /\ [][CreditsNext]_vars


(***************************************************************************)
(* The claims.                                                             *)
(***************************************************************************)
ReturnPcs == {"get_genres", "get_movies_from_endpoint", "get_movie_credits"}
AfterListing == {"rows", "safe_get_credits", "get_movie_credits", "done", "raised"}

\* the records of s without every later occurrence of an id already met
FirstOccurrences(s) ==
    LET F[k \in 0..Len(s)] ==
            IF k = 0 THEN <<>>
            ELSE IF \E j \in 1..(k-1) : s[j].id = s[k].id
                 THEN F[k-1]
                 ELSE Append(F[k-1], s[k])
    IN F[Len(s)]

UniqueIds(s) == \A j, k \in 1..Len(s) : j # k => s[j].id # s[k].id

\* C1: the rows of the output have pairwise different ids: in rows at every
\* moment of the run, and in the file once it is written, whatever the listing
\* endpoints returned and however often a movie was returned.
C1_UniqueRowIds ==
    /\ UniqueIds(rows)
    /\ pc = "done" => file = FileOf(rows) /\ UniqueIds(file.rows)

\* the run is over and the file holds one row although the last endpoint
\* returned again the movie that an earlier page had returned
C1_Witness ==
    /\ pc = "done"
    /\ Len(fetched) = 2
    /\ fetched[1].id = fetched[2].id
    /\ epFetched = <<fetched[2]>>
    /\ Len(file.rows) = 1

\* a step that sends a listing request sends the one for the next page of the
\* same endpoint or the one for page 1 of the next endpoint
RequestsInOrder ==
    lastReq' # lastReq =>
        \/ lastReq' = <<lastReq[1], lastReq[2] + 1>> /\ lastReq[1] >= 1
        \/ lastReq' = <<lastReq[1] + 1, 1>>

\* C3: first seen wins and the order is kept: the listing requests go out in
\* the order of ENDPOINTS and, within an endpoint, of increasing page; once
\* the endpoints are merged, all_movies is the sequence of the records
\* returned, in that order, without the later occurrences of an id; row k is
\* built from the k-th of these records, and the file written holds one row
\* for each of them.
C3_FirstSeenWins ==
    /\ [](/\ pc \in AfterListing => all_movies = FirstOccurrences(fetched)
          /\ Len(rows) <= Len(all_movies)
          /\ \A k \in 1..Len(rows) :
               /\ rows[k].id = FirstOccurrences(fetched)[k].id
               /\ rows[k].genres =
                    JoinGenres(GenresOf(genre_map, FirstOccurrences(fetched)[k]))
          /\ pc = "done" => /\ file = FileOf(rows)
                            /\ Len(rows) = Len(FirstOccurrences(fetched)))
    /\ [][RequestsInOrder]_vars

\* the file is written with the row of a movie that a later endpoint returned
\* again with other fields: the row has the genres of the first record
C3_Witness ==
    /\ pc = "done"
    /\ Len(fetched) = 2
    /\ fetched[1].id = fetched[2].id
    /\ HasKey(fetched[1], "genre_ids")
    /\ ~HasKey(fetched[2], "genre_ids")
    /\ epFetched = <<fetched[2]>>
    /\ Len(file.rows) = 1
    /\ file.rows[1].genres = "Action, Adventure"

\* C4: the pagination of an endpoint stops at the first page that comes back
\* absent or without a result list: no listing request is in flight for an
\* endpoint after such a page, the requests never go back to an earlier
\* endpoint or page, the movies handed to the merge are the records of the
\* pages before it, and the merge of an endpoint that is not the last is
\* followed by the request for page 1 of the next endpoint.
C4_StopsAtFirstAbsentPage ==
    /\ [](/\ pc = "safe_get_page" => stoppedAt = 0 /\ lastReq = <<ep, page>>
          /\ pc = "merge" => movies = epFetched
          /\ stoppedAt # 0 => pc = "get_movies_from_endpoint" \/ pc = "merge")
    /\ [][RequestsInOrder]_vars
    /\ [][pc = "merge" /\ ep < 4 =>
             pc' = "safe_get_page" /\ lastReq' = <<ep + 1, 1>>]_vars

\* page 2 of the first endpoint came back absent after page 1 had brought a
\* record, and that record is handed to the merge
C4_Witness ==
    /\ pc = "merge"
    /\ ep = 1
    /\ stoppedAt = 2
    /\ Len(movies) = 1

\* C6: with API_KEY unset, empty or equal to the placeholder, no session is
\* made, no HTTP call is issued and the file is left as it was; with another
\* credential the run makes the session and the genre lookup.
C6_RejectedCredentialDoesNothing ==
    /\ API_KEY \in {KeyUnset, KeyOf(""), KeyOf("YOUR_API_KEY_HERE")} =>
          /\ pc \in {"main", "returned"}
          /\ ~session
          /\ ~httpUsed
          /\ attempt = 0
          /\ genreCalls = 0
          /\ lastReq = <<0, 0>>
          /\ creditsLog = <<>>
          /\ file \in {NoFile, OldFile}
    /\ API_KEY \notin {KeyUnset, KeyOf(""), KeyOf("YOUR_API_KEY_HERE")} =>
          /\ pc # "returned"
          /\ pc # "main" => session /\ genreCalls = 1

\* main has returned on the placeholder credential, beside the file of an
\* earlier run
C6_Witness ==
    /\ pc = "returned"
    /\ API_KEY = KeyOf("YOUR_API_KEY_HERE")
    /\ file = OldFile

NameOrNumeral(gm, g) == IF g \in DOMAIN gm THEN gm[g] ELSE ToString(g)
GenresWithNumerals(gm, m) ==
    LET ids == Get(m, "genre_ids", <<>>)
    IN Join([k \in 1..Len(ids) |-> NameOrNumeral(gm, ids[k])])

\* C2: a genre id of a record that is missing from the genre map does not
\* make the run fail: no TypeError ends main, and the genres field of every
\* row names each id of the record by its name in the map or, when the map has
\* none, by its numeral.
C2_UnmappedGenreIsNumeral ==
    /\ error # "TypeError"
    /\ \A k \in 1..Len(rows) :
          rows[k].genres = GenresWithNumerals(genre_map, all_movies[k])

\* C5: a safe_get call of which all 3 attempts failed returns None and the
\* caller degrades without raising: get_genres gives the empty map,
\* get_movies_from_endpoint hands over the records of the pages before,
\* get_movie_credits gives ("", ""), and no exception ends main at the row of a
\* movie whose credits fetch failed.
C5_FailedFetchDegrades ==
    /\ pc \in ReturnPcs /\ failed = 3 => data = None
    /\ pc = "get_genres" /\ failed = 3 => GenreMapOf(data) = EmptyObj
    /\ pc = "merge" /\ stoppedAt # 0 => movies = epFetched
    /\ pc = "get_movie_credits" /\ failed = 3 => CreditsOf(data) = <<"", "">>
    /\ ~(pc = "raised" /\ error = "TypeError" /\ failed = 3)

\* the names of the first n entries of s joined by ", ", built from the left
JoinedNames(s, n) ==
    LET J[k \in 0..n] ==
            IF k = 0 THEN ""
            ELSE IF k = 1 THEN s[1].name
            ELSE J[k-1] \o ", " \o s[k].name
    IN J[n]

Min(a, b) == IF a < b THEN a ELSE b
DirectorAt(w, k) == IF "job" \in DOMAIN w[k] THEN w[k].job = "Director" ELSE FALSE

\* C8: on a non-empty credits payload, top_cast is the names of the first
\* min(n, 5) of the n cast entries, in their order, joined by ", " (no cast
\* key: n = 0), and director is the name of the first crew entry whose job is
\* "Director", or "" when the crew has none or the key is missing.
C8_TopCastAndDirector ==
    pc = "credits_result" /\ cPayload # None /\ DOMAIN cPayload # {} =>
        LET cast == IF "cast" \in DOMAIN cPayload THEN cPayload.cast ELSE <<>>
            crew == IF "crew" \in DOMAIN cPayload THEN cPayload.crew ELSE <<>>
            dirs == {k \in 1..Len(crew) : DirectorAt(crew, k)}
        IN /\ cResult[1] = JoinedNames(cast, Min(Len(cast), 5))
           /\ dirs = {} => cResult[2] = ""
           /\ dirs # {} =>
                cResult[2] = crew[CHOOSE k \in dirs : \A j \in dirs : k <= j].name

\* 7 cast entries gave 5 names, and the second of two directors, behind a
\* crew entry without a job, was not taken
C8_Witness ==
    /\ pc = "credits_result"
    /\ DOMAIN cPayload = {"cast", "crew"}
    /\ Len(cPayload.cast) = 7
    /\ cResult[1] = "A, A, B, A, A"
    /\ cPayload.crew = <<[name |-> "W", job |-> "Writer"],
                         [name |-> "E", job |-> "Director"]>>
    /\ cResult[2] = "E"

\* C9 as stated: a page that brings a result list that is present but empty
\* stops the pagination, so no request for the next page of the endpoint is
\* in flight behind it.
C9_EmptyListStops ==
    pc = "safe_get_page" /\ page > 1 /\ "results" \in DOMAIN data =>
        data.results # <<>>

\* C9, amended: a page that brings a result list, empty or not, does not stop
\* the pagination: its records are added and the next page is requested,
\* unless the page was the last one; the pagination is left for the merge only
\* behind a page that came back absent, as an empty object or without a result
\* list, or behind page PAGES_PER_ENDPOINT.
C9_EmptyListGoesOn ==
    /\ [][pc = "get_movies_from_endpoint" /\ "results" \in DOMAIN data =>
             /\ movies' = movies \o data.results
             /\ IF page < PAGES_PER_ENDPOINT
                THEN pc' = "safe_get_page" /\ lastReq' = <<ep, page + 1>>
                ELSE pc' = "merge"]_vars
    /\ [][pc = "get_movies_from_endpoint" /\ pc' = "merge" =>
             \/ data = None
             \/ "results" \notin DOMAIN data
             \/ page = PAGES_PER_ENDPOINT]_vars

\* page 2 of an endpoint is requested behind a page 1 that brought an empty
\* result list
C9_Witness ==
    /\ pc = "safe_get_page"
    /\ page = 2
    /\ attempt = 0
    /\ data = [results |-> <<>>]

\* C10: a run ends: it returns on a rejected credential, writes the file, or
\* is ended by an exception.  On the way each safe_get call makes at most 3
\* attempts, get_genres calls safe_get once, the pages requested of an
\* endpoint are 1, 2, ... up to PAGES_PER_ENDPOINT at most, each requested
\* once, and get_movie_credits is called once for each row, in the order of
\* the rows.
C10_RunTerminates ==
    /\ <>Terminated
    /\ [](/\ attempt <= 3
          /\ genreCalls <= 1
          /\ pc \notin {"main", "returned"} => genreCalls = 1
          /\ lastReq[2] <= PAGES_PER_ENDPOINT /\ lastReq[1] <= 4
          /\ Len(creditsLog) =
                Len(rows) + (IF pc \in {"safe_get_credits", "get_movie_credits"}
                                \/ (pc = "raised" /\ error = "TypeError")
                             THEN 1 ELSE 0)
          /\ \A k \in 1..Len(rows) : creditsLog[k] = rows[k].id)
    /\ [][RequestsInOrder]_vars

\* the file is written with two rows, each after its one credits lookup, at the
\* end of a run through the four endpoints
C10_Witness ==
    /\ pc = "done"
    /\ Len(file.rows) = 2
    /\ Len(creditsLog) = 2
    /\ lastReq[1] = 4

====
